---- MODULE Spec2Model ----
(***************************************************************************)
(* Model of the conversation pipeline of src/components/ChatbotPage.tsx:   *)
(* the React state of the ChatbotPage component, its event handlers        *)
(* (handleSend, handleTranscription, speakText, toggleSpeech, the record,  *)
(* send, replay and credential controls) and the continuations of the      *)
(* three asynchronous collaborators (transcription, completion request,    *)
(* speech synthesis).                                                      *)
(*                                                                         *)
(* A handler is a closure over the state of the render that created it.    *)
(* A control's handler belongs to the current render, so it reads the      *)
(* current state.  The audioData effect (deps [audioData]) runs            *)
(* handleTranscription of the render in which the buffer arrived, and the  *)
(* code after its await still reads that render's messages, inputText and  *)
(* apiKey; the code after handleSend's await still reads the speechEnabled *)
(* of the render that started handleSend.  The model keeps these captured  *)
(* values in the outstanding transcription / completion request.           *)
(*                                                                         *)
(* Every action is one synchronous run of the event loop: the state after  *)
(* the action is the state of the next render.                             *)
(***************************************************************************)
EXTENDS Integers, Sequences, FiniteSets, TLC

\* ------------------------------------------------------------------ bounds
\* Turns (accepted sends plus recordings) explored per behaviour.
MaxTurns == 2
\* Utterances a replay may stack up in the synthesis queue.
MaxQueue == 1

\* ------------------------------------------------------------------ texts
\* A text is a sequence of tokens; Space is the whitespace token.
Space == " "

\* Texts the user can type and the transcriber can return: empty,
\* whitespace-only, and a word with leading whitespace.
Texts == { <<>>, <<Space>>, <<Space, "a">> }

\* Contents the completion endpoint can return.
Replies == { <<"r">> }

\* Values of the credential input; "" is the absent credential.
Keys == { "", "k1" }

SystemPrompt == <<"You are a therapist.">>
TranscribeErrorText == <<"Error: Unable to transcribe audio.">>
CompletionErrorText == <<"Error: Unable to get a response from OpenAI API.">>

RECURSIVE TrimStart(_)
TrimStart(s) ==
    IF s # <<>> /\ Head(s) = Space THEN TrimStart(Tail(s)) ELSE s

RECURSIVE TrimEnd(_)
TrimEnd(s) ==
    IF s # <<>> /\ s[Len(s)] = Space THEN TrimEnd(SubSeq(s, 1, Len(s) - 1)) ELSE s

\* String.prototype.trim
Trim(s) == TrimEnd(TrimStart(s))

\* ------------------------------------------------------------------ state
VARIABLES
    messages,        \* useState<Message[]>: the Conversation
    inputText,       \* useState(''): the pending input text
    isLoading,       \* useState(false): the busy flag
    apiKey,          \* useState<string>(''): the credential
    isSpeaking,      \* useState(false): the speaking indicator
    speechEnabled,   \* useState(true)
    isRecording,     \* useAudioRecorder().isRecording
    isModelLoading,  \* useTranscriber().isModelLoading
    transcription,   \* outstanding transcriber.start call (0 or 1), with the closure of its render
    pending,         \* outstanding axios.post calls, each with the closure of its handleSend
    utterances,      \* window.speechSynthesis: queued utterances, head first
    uttStarted,      \* the head utterance is being spoken
    synthAvailable,  \* the host provides window.speechSynthesis (fixed for the session)
    turnLog,         \* history: one entry per turn (accepted send or recording)
    effects          \* history: collaborator calls made by the step just taken

vars == << messages, inputText, isLoading, apiKey, isSpeaking, speechEnabled,
           isRecording, isModelLoading, transcription, pending,
           utterances, uttStarted, synthAvailable, turnLog, effects >>

\* interface Message, with the turn that appended it (0: startup) as history
Message(role, content, turn) == [role |-> role, content |-> content, turn |-> turn]

SystemMessage == Message("system", SystemPrompt, 0)

\* useTranscriber().isBusy: a transcription is running
isBusy == transcription # <<>>

\* window.speechSynthesis.speaking
synthSpeaking == utterances # <<>> /\ uttStarted

\* The values a handler created by the current render closes over.
CurrentClosure ==
    [messages |-> messages, inputText |-> inputText,
     apiKey |-> apiKey, speechEnabled |-> speechEnabled]

Outstanding == Len(transcription) + Cardinality(pending)

Init ==
    /\ messages = << SystemMessage >>
    /\ inputText = <<>>
    /\ isLoading = FALSE
    /\ apiKey \in Keys
    /\ isSpeaking = FALSE
    /\ speechEnabled = TRUE
    /\ isRecording = FALSE
    /\ isModelLoading \in BOOLEAN
    /\ transcription = <<>>
    /\ pending = {}
    /\ utterances = <<>>
    /\ uttStarted = FALSE
    /\ synthAvailable \in BOOLEAN
    /\ turnLog = <<>>
    /\ effects = {}

\* ------------------------------------------------------- speech playback
\* speechSynthesis.cancel(): drops every queued utterance.  The dropped
\* utterance reports end/error at once, and its handler clears isSpeaking.
CancelSynth(q) ==
    [utterances |-> <<>>, uttStarted |-> FALSE, isSpeaking |-> FALSE]

SynthState ==
    [utterances |-> utterances, uttStarted |-> uttStarted, isSpeaking |-> isSpeaking]

\* Variant of SpeakText that queues the new utterance without cancelling
\* the one being spoken.
SpeakText_NoCancel(enabled, text, q) ==
    IF ~enabled
    THEN [synth |-> q, calls |-> {}, threw |-> FALSE]
    ELSE IF ~synthAvailable
    THEN [synth |-> q, calls |-> {}, threw |-> TRUE]
    ELSE [synth |-> [q EXCEPT !.utterances = Append(q.utterances, text)],
          calls |-> {"speak"},
          threw |-> FALSE]

\* speakText(text) of a render whose speechEnabled is `enabled`, run on the
\* synthesis state q.  Result: the new synthesis state, the collaborator
\* calls made, and whether the call threw (no speechSynthesis on the host:
\* reading speechSynthesis.speaking raises a TypeError).
SpeakText(enabled, text, q) ==
    IF ~enabled
    THEN [synth |-> q, calls |-> {}, threw |-> FALSE]
    ELSE IF ~synthAvailable
    THEN [synth |-> q, calls |-> {}, threw |-> TRUE]
    ELSE LET speaking == q.utterances # <<>> /\ q.uttStarted
             c == IF speaking THEN CancelSynth(q) ELSE q
         IN [synth |-> [c EXCEPT !.utterances = Append(c.utterances, text)],
             calls |-> (IF speaking THEN {"cancel"} ELSE {}) \cup {"speak"},
             threw |-> FALSE]

SetSynth(q) ==
    /\ utterances' = q.utterances
    /\ uttStarted' = q.uttStarted
    /\ isSpeaking' = q.isSpeaking

\* ------------------------------------------------------------ handleSend
\* const text = messageText || inputText  (an empty string is falsy)
SendText(c, messageText) ==
    IF messageText # <<>> THEN messageText ELSE c.inputText

\* The two early returns of handleSend, for a handler with closure c:
\* "blank" (nothing to send), "nokey" (alert), or "send".
SendDecision(c, messageText) ==
    IF Trim(SendText(c, messageText)) = <<>> THEN "blank"
    ELSE IF c.apiKey = "" THEN "nokey"
    ELSE "send"

\* Variant of UpdatedMessages that builds the new list from the rendered
\* messages (messages.slice(1)) instead of the whole Conversation.
UpdatedMessages_FromRendered(c, text, turn) ==
    Append(Tail(c.messages), Message("user", text, turn))

\* Variant of UpdatedMessages in which the request is prepared before the
\* user Message is appended.
UpdatedMessages_BeforeAppend(c, text, turn) == c.messages

\* const updatedMessages = [...messages, newMessage]
UpdatedMessages(c, text, turn) ==
    Append(c.messages, Message("user", text, turn))

\* Variant of Request that posts the messages of the closure, without the
\* new user Message.
Request_WithoutNewMessage(c, text, turn) ==
    [turn |-> turn,
     sent |-> c.messages,
     key |-> c.apiKey,
     speechEnabled |-> c.speechEnabled]

\* The axios.post call: the message list and bearer credential it carries,
\* and the speechEnabled its continuation will read.
Request(c, text, turn) ==
    [turn |-> turn,
     sent |-> UpdatedMessages(c, text, turn),
     key |-> c.apiKey,
     speechEnabled |-> c.speechEnabled]

\* Variant of LoadingAfterFinally in which the handlers have no finally block
\* and leave the flag as handleSend / handleTranscription set it.
LoadingAfterFinally_LeftSet == TRUE

\* isLoading after a finally block has run
LoadingAfterFinally == FALSE

Log(kind, text, phase) == [kind |-> kind, text |-> text, phase |-> phase]

SetPhase(turn, phase) == [turnLog EXCEPT ![turn].phase = phase]

\* ---------------------------------------------------------------- controls
\* The text input (onChange), enabled unless isLoading, isRecording or isBusy.
TypeText(t) ==
    /\ ~(isLoading \/ isRecording \/ isBusy)
    /\ inputText' = t
    /\ effects' = {}
    /\ UNCHANGED << messages, isLoading, apiKey, isSpeaking, speechEnabled,
                    isRecording, isModelLoading, transcription, pending,
                    utterances, uttStarted, synthAvailable, turnLog >>

\* handleApiKeyChange: the credential input is never disabled.
SetApiKey(k) ==
    /\ apiKey' = k
    /\ effects' = {}
    /\ UNCHANGED << messages, inputText, isLoading, isSpeaking, speechEnabled,
                    isRecording, isModelLoading, transcription, pending,
                    utterances, uttStarted, synthAvailable, turnLog >>

\* The Record/End button is disabled while isLoading, isModelLoading or isBusy.
RecordEnabled == ~(isLoading \/ isModelLoading \/ isBusy)

\* The Send button is disabled while isLoading, isRecording or isBusy, and
\* while the input text is blank.
SendEnabled == ~(isLoading \/ Trim(inputText) = <<>> \/ isRecording \/ isBusy)

\* handleRecordButtonClick, not recording: startRecording()
StartRecording ==
    /\ RecordEnabled
    /\ ~isRecording
    /\ Len(turnLog) < MaxTurns
    /\ isRecording' = TRUE
    /\ turnLog' = Append(turnLog, Log("rec", <<>>, "recording"))
    /\ effects' = {}
    /\ UNCHANGED << messages, inputText, isLoading, apiKey, isSpeaking, speechEnabled,
                    isModelLoading, transcription, pending,
                    utterances, uttStarted, synthAvailable >>

RecordingTurn == CHOOSE i \in DOMAIN turnLog : turnLog[i].phase = "recording"

\* handleRecordButtonClick, recording: stopRecording() yields the buffer; the
\* audioData effect of that render calls handleTranscription, which sets
\* isLoading and awaits transcriber.start.
StopRecording ==
    /\ RecordEnabled
    /\ isRecording
    /\ isRecording' = FALSE
    /\ isLoading' = TRUE
    /\ transcription' = << [closure |-> CurrentClosure, turn |-> RecordingTurn] >>
    /\ turnLog' = SetPhase(RecordingTurn, "transcribing")
    /\ effects' = {"transcribe"}
    /\ UNCHANGED << messages, inputText, apiKey, isSpeaking, speechEnabled,
                    isModelLoading, pending,
                    utterances, uttStarted, synthAvailable >>

\* useTranscriber: the model finished loading.
ModelLoaded ==
    /\ isModelLoading
    /\ isModelLoading' = FALSE
    /\ effects' = {}
    /\ UNCHANGED << messages, inputText, isLoading, apiKey, isSpeaking, speechEnabled,
                    isRecording, transcription, pending,
                    utterances, uttStarted, synthAvailable, turnLog >>

\* The Send button: handleSend() of the current render.
ClickSend ==
    /\ SendEnabled
    /\ LET c == CurrentClosure
           d == SendDecision(c, <<>>)
           text == SendText(c, <<>>)
           turn == Len(turnLog) + 1
       IN CASE d = "blank" ->
                 /\ effects' = {}
                 /\ UNCHANGED << messages, inputText, isLoading, pending, turnLog >>
            [] d = "nokey" ->
                 /\ effects' = {"alert"}
                 /\ UNCHANGED << messages, inputText, isLoading, pending, turnLog >>
            [] d = "send" ->
                 /\ Len(turnLog) < MaxTurns
                 /\ messages' = UpdatedMessages(c, text, turn)
                 /\ inputText' = <<>>
                 /\ isLoading' = TRUE
                 /\ pending' = pending \cup { Request(c, text, turn) }
                 /\ turnLog' = Append(turnLog, Log("send", text, "waiting"))
                 /\ effects' = {"post"}
    /\ UNCHANGED << apiKey, isSpeaking, speechEnabled, isRecording, isModelLoading,
                    transcription, utterances, uttStarted, synthAvailable >>

\* ----------------------------------------------------- handleTranscription
\* transcriber.start resolved with text t: setInputText(t); handleSend(t) of
\* the effect's render runs up to its await and is not awaited; finally.
TranscribeOk(t) ==
    /\ transcription # <<>>
    /\ LET c == transcription[1].closure
           turn == transcription[1].turn
           d == SendDecision(c, t)
           text == SendText(c, t)
       IN CASE d = "blank" ->
                 /\ inputText' = t
                 /\ turnLog' = SetPhase(turn, "aborted")
                 /\ effects' = {}
                 /\ UNCHANGED << messages, pending >>
            [] d = "nokey" ->
                 /\ inputText' = t
                 /\ turnLog' = SetPhase(turn, "aborted")
                 /\ effects' = {"alert"}
                 /\ UNCHANGED << messages, pending >>
            [] d = "send" ->
                 /\ messages' = UpdatedMessages(c, text, turn)
                 /\ inputText' = <<>>
                 /\ pending' = pending \cup { Request(c, text, turn) }
                 /\ turnLog' = [turnLog EXCEPT ![turn] = Log("rec", text, "waiting")]
                 /\ effects' = {"post"}
    /\ isLoading' = LoadingAfterFinally
    /\ transcription' = <<>>
    /\ UNCHANGED << apiKey, isSpeaking, speechEnabled, isRecording, isModelLoading,
                    utterances, uttStarted, synthAvailable >>

\* Variant of TranscriptionCatch that reports the failure with the completion
\* failure text.
TranscriptionCatch_CompletionText(msgs, turn) ==
    Append(msgs, Message("assistant", CompletionErrorText, turn))

\* catch (error): setMessages(prev => [...prev, errorMessage])
TranscriptionCatch(msgs, turn) ==
    Append(msgs, Message("assistant", TranscribeErrorText, turn))

\* transcriber.start rejected: catch, finally.
TranscribeFail ==
    /\ transcription # <<>>
    /\ messages' = TranscriptionCatch(messages, transcription[1].turn)
    /\ isLoading' = LoadingAfterFinally
    /\ transcription' = <<>>
    /\ turnLog' = SetPhase(transcription[1].turn, "txfailed")
    /\ effects' = {}
    /\ UNCHANGED << inputText, apiKey, isSpeaking, speechEnabled, isRecording,
                    isModelLoading, pending,
                    utterances, uttStarted, synthAvailable >>

\* ------------------------------------------ handleSend after its await
\* catch (error): setMessages(prev => [...prev, errorMessage])
CompletionCatch(msgs, turn) ==
    Append(msgs, Message("assistant", CompletionErrorText, turn))

\* axios.post resolved with a well-formed body: append the reply, speakText
\* of handleSend's render; an exception raised by speakText lands in catch.
CompletionOk(r, reply) ==
    /\ r \in pending
    /\ LET sp == SpeakText(r.speechEnabled, reply, SynthState)
           withReply == Append(messages, Message("assistant", reply, r.turn))
       IN /\ messages' = IF sp.threw THEN CompletionCatch(withReply, r.turn) ELSE withReply
          /\ SetSynth(sp.synth)
          /\ effects' = sp.calls
    /\ isLoading' = LoadingAfterFinally
    /\ pending' = pending \ {r}
    /\ turnLog' = SetPhase(r.turn, "ok")
    /\ UNCHANGED << inputText, apiKey, speechEnabled, isRecording,
                    isModelLoading, transcription, synthAvailable >>

\* axios.post rejected (network, non-2xx) or the body is malformed.
CompletionFail(r) ==
    /\ r \in pending
    /\ messages' = CompletionCatch(messages, r.turn)
    /\ isLoading' = LoadingAfterFinally
    /\ pending' = pending \ {r}
    /\ turnLog' = SetPhase(r.turn, "failed")
    /\ effects' = {}
    /\ UNCHANGED << inputText, apiKey, isSpeaking, speechEnabled, isRecording,
                    isModelLoading, transcription,
                    utterances, uttStarted, synthAvailable >>

\* ------------------------------------------------------ speech controls
\* Variant of ToggleCancels that stops ongoing speech on every toggle.
ToggleCancels_OnEveryToggle(enabled, speaking) == speaking

\* if (speechEnabled && speechSynthesis.speaking)
ToggleCancels(enabled, speaking) == enabled /\ speaking

\* toggleSpeech of the current render.  Without speechSynthesis the read of
\* .speaking throws after setSpeechEnabled was queued: the flag still flips.
ToggleSpeech ==
    /\ speechEnabled' = ~speechEnabled
    /\ IF synthAvailable /\ ToggleCancels(speechEnabled, synthSpeaking)
       THEN /\ SetSynth([CancelSynth(SynthState) EXCEPT !.isSpeaking = FALSE])
            /\ effects' = {"cancel"}
       ELSE /\ effects' = {}
            /\ UNCHANGED << utterances, uttStarted, isSpeaking >>
    /\ UNCHANGED << messages, inputText, isLoading, apiKey, isRecording, isModelLoading,
                    transcription, pending, synthAvailable, turnLog >>

\* The rendered view: messages.slice(1)
Rendered == Tail(messages)

\* Variant of Replay that treats the replay as a turn of the pipeline and
\* sets the busy flag while the message is read aloud.
Replay_SetsBusy(i) ==
    /\ i \in DOMAIN Rendered
    /\ Rendered[i].role = "assistant"
    /\ LET sp == SpeakText(speechEnabled, Rendered[i].content, SynthState)
       IN /\ Len(sp.synth.utterances) <= MaxQueue
          /\ SetSynth(sp.synth)
          /\ effects' = sp.calls
    /\ isLoading' = TRUE
    /\ UNCHANGED << messages, inputText, apiKey, speechEnabled,
                    isRecording, isModelLoading, transcription, pending,
                    synthAvailable, turnLog >>

\* The replay button of a rendered assistant message: speakText(msg.content)
\* of the current render.  An exception escapes the handler.
Replay(i) ==
    /\ i \in DOMAIN Rendered
    /\ Rendered[i].role = "assistant"
    /\ LET sp == SpeakText(speechEnabled, Rendered[i].content, SynthState)
       IN /\ Len(sp.synth.utterances) <= MaxQueue
          /\ SetSynth(sp.synth)
          /\ effects' = sp.calls
    /\ UNCHANGED << messages, inputText, isLoading, apiKey, speechEnabled,
                    isRecording, isModelLoading, transcription, pending,
                    synthAvailable, turnLog >>

\* utterance.onstart
UtteranceStart ==
    /\ utterances # <<>>
    /\ ~uttStarted
    /\ uttStarted' = TRUE
    /\ isSpeaking' = TRUE
    /\ effects' = {}
    /\ UNCHANGED << messages, inputText, isLoading, apiKey, speechEnabled, isRecording,
                    isModelLoading, transcription, pending, utterances,
                    synthAvailable, turnLog >>

\* utterance.onend
UtteranceEnd ==
    /\ synthSpeaking
    /\ utterances' = Tail(utterances)
    /\ uttStarted' = FALSE
    /\ isSpeaking' = FALSE
    /\ effects' = {}
    /\ UNCHANGED << messages, inputText, isLoading, apiKey, speechEnabled, isRecording,
                    isModelLoading, transcription, pending,
                    synthAvailable, turnLog >>

\* utterance.onerror: synthesis of the head utterance failed
UtteranceError ==
    /\ utterances # <<>>
    /\ utterances' = Tail(utterances)
    /\ uttStarted' = FALSE
    /\ isSpeaking' = FALSE
    /\ effects' = {}
    /\ UNCHANGED << messages, inputText, isLoading, apiKey, speechEnabled, isRecording,
                    isModelLoading, transcription, pending,
                    synthAvailable, turnLog >>

\* ------------------------------------------------------------ behaviours
TranscriptionReturns == (\E t \in Texts : TranscribeOk(t)) \/ TranscribeFail

CompletionReturns ==
    \E r \in pending : (\E reply \in Replies : CompletionOk(r, reply)) \/ CompletionFail(r)

Next ==
    \/ \E t \in Texts : TypeText(t)
    \/ \E k \in Keys : SetApiKey(k)
    \/ StartRecording
    \/ StopRecording
    \/ ModelLoaded
    \/ ClickSend
    \/ \E t \in Texts : TranscribeOk(t)
    \/ TranscribeFail
    \/ \E r \in pending : \E reply \in Replies : CompletionOk(r, reply)
    \/ \E r \in pending : CompletionFail(r)
    \/ ToggleSpeech
    \/ \E i \in 1..(Len(messages) - 1) : Replay(i)
    \/ UtteranceStart
    \/ UtteranceEnd
    \/ UtteranceError

Spec == Init /\ [][Next]_vars

\* The external calls return: every outstanding transcription and completion
\* request eventually resolves or rejects.
FairSpec == Spec /\ WF_vars(TranscriptionReturns) /\ WF_vars(CompletionReturns)

\* ================================================================ claims
UserOf(turn) == { i \in DOMAIN messages : messages[i].role = "user" /\ messages[i].turn = turn }

AssistantOf(turn) ==
    { i \in DOMAIN messages : messages[i].role = "assistant" /\ messages[i].turn = turn }

IsPrefix(s, t) == Len(s) <= Len(t) /\ SubSeq(t, 1, Len(s)) = s

\* C1: every invocation of handleSend that passed its two guards leaves
\* exactly one user Message with its text in the Conversation, no assistant
\* Message while the request is outstanding, and exactly one assistant
\* Message (the reply, or the fixed failure text) once the request has
\* returned; both stay in the Conversation in every later state.
C1_OneUserOneAssistantPerInvocation ==
    \A turn \in DOMAIN turnLog :
        LET e == turnLog[turn] IN
        /\ e.phase \in {"waiting", "ok", "failed"} =>
              /\ Cardinality(UserOf(turn)) = 1
              /\ \A i \in UserOf(turn) : messages[i].content = e.text
        /\ e.phase = "waiting" => AssistantOf(turn) = {}
        /\ e.phase \in {"ok", "failed"} =>
              /\ Cardinality(AssistantOf(turn)) = 1
              /\ \A i \in AssistantOf(turn) :
                    /\ i > CHOOSE u \in UserOf(turn) : TRUE
                    /\ e.phase = "failed" => messages[i].content = CompletionErrorText
                    /\ e.phase = "ok" => messages[i].content \in Replies

\* C2: at most one completion or transcription request is outstanding.
C2_AtMostOneOutstanding == Outstanding <= 1

\* C3: the Conversation is append-only: in every step the Conversation
\* before the step is a prefix of the Conversation after it.
C3_AppendOnly == [][IsPrefix(messages, messages')]_vars

\* C4: the Conversation is never empty, its first entry is the system
\* Message set at startup, and no other entry has role system.
C4_SystemMessageFirstAndOnly ==
    /\ messages # <<>>
    /\ messages[1] = SystemMessage
    /\ \A i \in 2..Len(messages) : messages[i].role # "system"

\* C4 witness: a turn has completed, so the Conversation holds the system
\* Message followed by a user and an assistant Message.
C4_Witness ==
    /\ Len(messages) >= 3
    /\ \E i \in DOMAIN messages : messages[i].role = "user"
    /\ \E i \in DOMAIN messages : messages[i].role = "assistant"

\* What handleSend(t) of the current render does to the Conversation and
\* whether it issues a completion request.
SubmitTextEffect(t) ==
    LET c == CurrentClosure
        sends == SendDecision(c, t) = "send"
    IN [messages |-> IF sends
                     THEN UpdatedMessages(c, SendText(c, t), transcription[1].turn)
                     ELSE messages,
        posts |-> sends]

\* C5: a recording that transcribes to t changes the Conversation exactly
\* as submitText(t) started from the same state would, and issues a
\* completion request exactly when submitText(t) would.
C5_RecordingEqualsSubmitText ==
    [][\A t \in Texts :
          TranscribeOk(t) =>
             /\ messages' = SubmitTextEffect(t).messages
             /\ ("post" \in effects') = SubmitTextEffect(t).posts]_vars

\* C6: submitting empty or whitespace-only text is a no-op, from the Send
\* control and from a transcription result alike: the Conversation is
\* unchanged and no completion request is issued.
C6_BlankTextIsNoOp ==
    [][/\ (ClickSend /\ Trim(inputText) = <<>>) =>
             (messages' = messages /\ pending' = pending /\ isLoading' = isLoading)
       /\ \A t \in Texts :
             (TranscribeOk(t) /\ Trim(t) = <<>>) =>
                (messages' = messages /\ pending' = pending /\ "post" \notin effects')]_vars

\* C7: submitText of non-blank text with no credential present changes
\* neither the Conversation nor the outstanding requests nor (by itself)
\* busy and the pending input text, and prompts the user.
C7_NoCredentialAborts ==
    [][apiKey = "" =>
          /\ ClickSend =>
                /\ messages' = messages /\ pending' = pending
                /\ isLoading' = isLoading /\ inputText' = inputText
                /\ effects' = {"alert"}
          /\ \A t \in Texts :
                (TranscribeOk(t) /\ Trim(SendText(transcription[1].closure, t)) # <<>>) =>
                   /\ messages' = messages /\ pending' = pending
                   /\ inputText' = t
                   /\ effects' = {"alert"}]_vars

Idle == ~isLoading /\ Outstanding = 0

\* C8: when every external call returns, every state with an outstanding
\* transcription or completion request is eventually followed by a state
\* where busy is false and nothing is outstanding.
C8_BusyEventuallyCleared == (Outstanding > 0) ~> Idle

\* C8 witness: the pipeline is idle again after a completion failure and a
\* transcription failure.
C8_Witness ==
    /\ Idle
    /\ \E i \in DOMAIN turnLog : turnLog[i].phase = "failed"
    /\ \E i \in DOMAIN turnLog : turnLog[i].phase = "txfailed"

\* C9: a failed transcription appends exactly one assistant Message with the
\* text 'Error: Unable to transcribe audio.' and nothing else, issues no
\* completion request and starts no playback.
C9_TranscriptionFailure ==
    [][TranscribeFail =>
          /\ Len(messages') = Len(messages) + 1
          /\ IsPrefix(messages, messages')
          /\ messages'[Len(messages')].role = "assistant"
          /\ messages'[Len(messages')].content = TranscribeErrorText
          /\ pending' = pending
          /\ effects' \cap {"post", "speak"} = {}
          /\ utterances' = utterances]_vars

\* C9 witness: a transcription has failed and its message is the last one.
C9_Witness ==
    /\ \E i \in DOMAIN turnLog : turnLog[i].phase = "txfailed"
    /\ messages[Len(messages)].content = TranscribeErrorText

\* C10: speechSynthesis.speak is called only in a step taken while the
\* speech-enabled flag is true: a reply that arrives, or a replay that is
\* requested, while the flag is false starts no utterance.
C10_SpeakOnlyWhenEnabled ==
    [][~speechEnabled => "speak" \notin effects']_vars
\* C11: toggleSpeech flips the speech-enabled flag on every call; turning it
\* off while an utterance is playing calls cancel and clears the speaking
\* indicator in the same step; turning it on cancels nothing.
C11_ToggleSpeech ==
    [][ToggleSpeech =>
          /\ speechEnabled' = ~speechEnabled
          /\ (speechEnabled /\ synthSpeaking) =>
                 /\ "cancel" \in effects'
                 /\ utterances' = <<>>
                 /\ ~isSpeaking'
          /\ ~speechEnabled =>
                 /\ "cancel" \notin effects'
                 /\ utterances' = utterances
                 /\ uttStarted' = uttStarted
                 /\ isSpeaking' = isSpeaking]_vars

\* C11 witness: speech was just turned off while an utterance was playing,
\* and the toggle cancelled it (only toggleSpeech calls cancel without speak).
C11_Witness ==
    /\ ~speechEnabled
    /\ effects = {"cancel"}
    /\ utterances = <<>>
    /\ ~isSpeaking
\* C12: a playback failure inserts no Message: the step that receives a
\* reply appends the reply and nothing else, also when speakText raises, and
\* an utterance's error notification leaves the Conversation unchanged; the
\* speaking indicator is false after either failure.
C12_PlaybackFailureAddsNoMessage ==
    [][/\ UtteranceError => (messages' = messages /\ ~isSpeaking')
       /\ \A r \in pending : \A reply \in Replies :
             CompletionOk(r, reply) =>
                /\ messages' = Append(messages, Message("assistant", reply, r.turn))
                /\ SpeakText(r.speechEnabled, reply, SynthState).threw => ~isSpeaking']_vars
NonSystem(m) == m.role # "system"

\* C13: before any turn the Conversation is exactly [system]; after one
\* successful submitText(t) from the initial state it is exactly
\* [system, user(t), assistant(reply)]; and the rendered view is always the
\* Conversation without its first entry, which is exactly the non-system
\* Messages in order.
C13_RoundTrip ==
    /\ turnLog = <<>> => messages = << SystemMessage >>
    /\ (Len(turnLog) = 1 /\ turnLog[1].phase = "ok") =>
          /\ Len(messages) = 3
          /\ messages[1] = SystemMessage
          /\ messages[2] = Message("user", turnLog[1].text, 1)
          /\ messages[3].role = "assistant"
          /\ messages[3].content \in Replies
    /\ Rendered = SubSeq(messages, 2, Len(messages))
    /\ Rendered = SelectSeq(messages, NonSystem)
\* C14: the steps of one invocation occur in order.  A completion request is
\* issued only by a step that has appended the invocation's user Message,
\* and before any assistant Message of the invocation exists; the assistant
\* Message of an invocation is appended only by the return of a request
\* issued in an earlier step; and playback for a reply is invoked only by
\* the step that has appended that reply.
C14_StepsInOrder ==
    [][/\ \A r \in pending' \ pending :
             /\ "post" \in effects'
             /\ messages'[Len(messages')] = Message("user", turnLog'[r.turn].text, r.turn)
             /\ \A i \in DOMAIN messages' :
                   ~(messages'[i].role = "assistant" /\ messages'[i].turn = r.turn)
       /\ \A i \in DOMAIN messages' :
             (/\ messages'[i].role = "assistant"
              /\ messages'[i].content # TranscribeErrorText
              /\ AssistantOf(messages'[i].turn) = {}) =>
                \E r \in pending \ pending' :
                   /\ r.turn = messages'[i].turn
                   /\ \E j \in 1..(i - 1) :
                         messages'[j].role = "user" /\ messages'[j].turn = r.turn
       /\ ("speak" \in effects' /\ messages' # messages) =>
             /\ messages'[Len(messages')].role = "assistant"
             /\ messages'[Len(messages')].content = utterances'[Len(utterances')]
             /\ \E r \in pending \ pending' : r.turn = messages'[Len(messages')].turn]_vars

\* C14 witness: a turn has run through all four steps: its reply is the last
\* Message and was handed to playback by the step just taken.
C14_Witness ==
    /\ "speak" \in effects
    /\ messages[Len(messages)].role = "assistant"
    /\ messages[Len(messages)].content \in Replies
    /\ turnLog[messages[Len(messages)].turn].phase = "ok"
    /\ utterances # <<>>
\* C15: busy covers the whole turn: whenever a transcription request or a
\* completion request is outstanding, isLoading is true.
C15_BusyWhileOutstanding == Outstanding > 0 => isLoading
\* C16: a completion request carries the whole Conversation as it stands
\* right after the invocation's user Message was appended: the list sent is
\* the Conversation after the step, the system Message first and the new
\* user Message last.
C16_RequestCarriesConversation ==
    [][\A r \in pending' \ pending :
          /\ r.sent = messages'
          /\ r.sent[1] = SystemMessage
          /\ r.sent[Len(r.sent)] = Message("user", turnLog'[r.turn].text, r.turn)]_vars

\* C16 witness: a request was just issued for a Conversation that already
\* holds an earlier turn, and it carries all of it.
C16_Witness ==
    /\ "post" \in effects
    /\ Len(messages) >= 4
    /\ \E r \in pending : r.sent = messages
\* C17: a new utterance supersedes the one being spoken: a step that calls
\* speak while an utterance is playing calls cancel first, so that the new
\* utterance is the only one in the synthesis queue and the old one is no
\* longer playing; and no operation cancels a request: a completion request
\* leaves the outstanding set only by returning (its assistant Message is
\* appended), a transcription only by resolving or rejecting, and playback
\* operations leave both untouched.
C17_NewUtteranceSupersedes ==
    [][/\ ("speak" \in effects' /\ synthSpeaking) =>
             /\ "cancel" \in effects'
             /\ Len(utterances') = 1
             /\ ~uttStarted'
       /\ \A r \in pending \ pending' :
             /\ turnLog'[r.turn].phase \in {"ok", "failed"}
             /\ \E i \in DOMAIN messages' :
                   /\ i > Len(messages)
                   /\ messages'[i].role = "assistant"
                   /\ messages'[i].turn = r.turn
       /\ (transcription # <<>> /\ transcription' = <<>>) =>
             turnLog'[transcription[1].turn].phase \in {"waiting", "aborted", "txfailed"}
       /\ (utterances' # utterances /\ messages' = messages) =>
             (pending' = pending /\ transcription' = transcription)]_vars

\* C17 witness: speakText has just replaced a playing utterance by a new one.
C17_Witness ==
    /\ effects = {"cancel", "speak"}
    /\ Len(utterances) = 1
    /\ ~uttStarted
\* C18: replay is independent of the turn sequence: in every state, also
\* while a request is outstanding, a replay step leaves the Conversation,
\* the busy flag, the pending input text, the credential and the
\* speech-enabled flag unchanged and issues no transcription or completion
\* request.
C18_ReplayFrame ==
    [][\A i \in DOMAIN Rendered :
          Replay(i) =>
             /\ messages' = messages
             /\ isLoading' = isLoading
             /\ inputText' = inputText
             /\ apiKey' = apiKey
             /\ speechEnabled' = speechEnabled
             /\ pending' = pending
             /\ transcription' = transcription
             /\ effects' \cap {"post", "transcribe", "alert"} = {}]_vars

\* C18 witness: a replay has just started an utterance while a request is
\* outstanding (no reply has arrived yet, so the utterance is a replay).
C18_Witness ==
    /\ "speak" \in effects
    /\ Outstanding > 0
    /\ \A turn \in DOMAIN turnLog : turnLog[turn].phase # "ok"
\* C19: submitText uses the credential that is current when it runs: a
\* submitText of non-blank text, from the Send control or after a
\* transcription, aborts with the prompt exactly when the current credential
\* is empty, and otherwise issues a request that carries the current
\* credential.
C19_CurrentCredential ==
    [][/\ ClickSend =>
             IF apiKey = ""
             THEN pending' = pending /\ "alert" \in effects'
             ELSE \E r \in pending' \ pending : r.key = apiKey
       /\ \A t \in Texts :
             (TranscribeOk(t) /\ Trim(SendText(transcription[1].closure, t)) # <<>>) =>
                IF apiKey = ""
                THEN pending' = pending /\ "alert" \in effects'
                ELSE \E r \in pending' \ pending : r.key = apiKey]_vars
====
